---- MODULE Spec2Model ----
(***************************************************************************)
(* Model of the corruptKernel UEFI bootloader, src/bootloader/main.c.      *)
(*                                                                         *)
(* efi_main is a single sequential function.  The model follows it stage   *)
(* by stage (pc), and records every firmware service it invokes in the     *)
(* sequence `calls`, in program order.  The firmware (file system, page    *)
(* allocator, protocol database) is the environment: the outcome of each   *)
(* of its services is chosen nondeterministically when the call is made.   *)
(*                                                                         *)
(* Modelling decisions:                                                    *)
(*  - 64-bit byte counts that take part in arithmetic (p_memsz) are kept   *)
(*    at full width as three limbs [top, mid, lo] with                     *)
(*        value = (top * 2^31 + mid) * PageSize + lo,                      *)
(*        top < 2^21, mid < 2^31, lo < PageSize.                           *)
(*  - Physical memory is observed at the byte addresses in Probe only.     *)
(*  - Files are long enough for every Read, so Read leaves its size        *)
(*    argument unchanged; pool allocations succeed; the result of GetInfo  *)
(*    (lines 194-198) is never used by the code and is not part of state.  *)
(***************************************************************************)
EXTENDS Integers, Sequences, FiniteSets, TLC

(* ------------------------------ bounds --------------------------------- *)
MaxPhnum == 2

(* ----------------------------- constants ------------------------------- *)
PSF1_MAGIC0 == 54
PSF1_MAGIC1 == 4
SELFMAG == 4
ELFCLASS64 == 2
ELFDATA2LSB == 1
ET_EXEC == 2
EM_X86_64 == 62
EV_CURRENT == 1
PT_LOAD == 1
PT_NOTE == 4
PageSize == 4096
SizeofPhdr == 56
SizeofPSF1Header == 4
SizeofEhdr == 64
SizeofPSF1Font == 16
Int31Max == 2147483647
TopMax == 2097151

ELFMAG == <<127, 69, 76, 70>>

(* EFI_STATUS values: err is the high bit that EFIERR() sets. *)
EFI_SUCCESS == [err |-> 0, code |-> 0]
EFI_LOAD_ERROR == [err |-> 1, code |-> 1]
PlainOne == [err |-> 0, code |-> 1]

(* ------------------------------ handles -------------------------------- *)
NULL == [dir |-> "", path |-> ""]
Root == [dir |-> "", path |-> "/"]
Handle(Directory, Path) == [dir |-> Directory.path, path |-> Path]

(* ------------------------- 64-bit byte counts -------------------------- *)
U64(top, mid, lo) == [top |-> top, mid |-> mid, lo |-> lo]

(* ------------------------------- inputs -------------------------------- *)
SegA == 1048576
SegB == 2097152
Probe == {SegA, SegA + 1, SegB, SegB + 1}
Dirty == 170
\* addresses of the loader's own buffers (stack and pool)
HeaderBuf == 4096
PhdrsBase == 16384
FontHeaderBuf == 20480
GlyphBuf == 24576
EntryAddr == SegA

ValidHeader ==
  [mag |-> ELFMAG, class |-> ELFCLASS64, data |-> ELFDATA2LSB,
   type |-> ET_EXEC, machine |-> EM_X86_64, version |-> EV_CURRENT]

\* the valid header and every header that differs from it in one checked field
Headers ==
  {ValidHeader}
  \cup {[ValidHeader EXCEPT !.mag = [ValidHeader.mag EXCEPT ![i] = @ + d]] :
           i \in 1..4, d \in {-1, 1}}
  \cup {[ValidHeader EXCEPT !.class = 1], [ValidHeader EXCEPT !.data = 2],
        [ValidHeader EXCEPT !.type = 3], [ValidHeader EXCEPT !.machine = 3],
        [ValidHeader EXCEPT !.version = 0]}

PhEntSizes == {56, 64}

Entries ==
  { [p_type |-> PT_NOTE, p_offset |-> 0, p_paddr |-> 0, p_filesz |-> 0,
     p_memsz |-> U64(0, 0, 0)],
    [p_type |-> PT_LOAD, p_offset |-> PageSize, p_paddr |-> SegA, p_filesz |-> 1,
     p_memsz |-> U64(0, 0, 2)],
    [p_type |-> PT_LOAD, p_offset |-> 2 * PageSize, p_paddr |-> SegB, p_filesz |-> 2,
     p_memsz |-> U64(0, 1, 1)],
    [p_type |-> PT_LOAD, p_offset |-> 2 * PageSize, p_paddr |-> SegB, p_filesz |-> 1,
     p_memsz |-> U64(TopMax, Int31Max, 4095)] }

\* what a program-header view that does not start at an entry boundary decodes to
Misaligned ==
  [p_type |-> PT_LOAD, p_offset |-> 0, p_paddr |-> 0, p_filesz |-> 0,
   p_memsz |-> U64(0, 0, 0)]

FontHeaders ==
  {[magic |-> <<PSF1_MAGIC0, PSF1_MAGIC1>>, mode |-> m, charsize |-> c] :
      m \in 0..3, c \in {0, 16, 255}}
  \cup {[magic |-> mg, mode |-> 1, charsize |-> 16] :
      mg \in {<<PSF1_MAGIC0 + 1, PSF1_MAGIC1>>, <<PSF1_MAGIC0, PSF1_MAGIC1 + 1>>,
              <<0, 0>>}}

\* content of main.elf at byte offset off
KernelByte(off) == (off % 251) + 1

VARIABLES pc, ret, calls, Kernel, header, kernelSize, phdrs, phdr, mem,
          font, fontHeader, glyphBufferSize, zapFont, framebuffer, kernelData

vars == <<pc, ret, calls, Kernel, header, kernelSize, phdrs, phdr, mem,
          font, fontHeader, glyphBufferSize, zapFont, framebuffer, kernelData>>

(* ---------------------------- LoadFile --------------------------------- *)
\* Directory actually used by Open: the volume root when Directory is NULL
LoadFileDir(Directory) == IF Directory = NULL THEN Root ELSE Directory

LoadFile(Directory, Path, ok) ==
  IF ok THEN Handle(LoadFileDir(Directory), Path) ELSE NULL

LoadFileCalls(Directory, Path, ok) ==
  (IF Directory = NULL THEN <<[op |-> "OpenVolume"]>> ELSE <<>>)
  \o <<[op |-> "Open", dir |-> LoadFileDir(Directory), path |-> Path, ok |-> ok]>>

(* ----------------------------- memcmp ---------------------------------- *)
RECURSIVE memcmpFrom(_, _, _, _)
memcmpFrom(a, b, i, n) ==
  IF i > n THEN 0
  ELSE IF a[i] < b[i] THEN -1
  ELSE IF a[i] > b[i] THEN 1
  ELSE memcmpFrom(a, b, i + 1, n)

memcmp(a, b, n) == memcmpFrom(a, b, 1, n)

(* ------------------------- header validation --------------------------- *)
HeaderInvalidNoVersion(h) ==
  \/ memcmp(h.mag, ELFMAG, SELFMAG) # 0
  \/ h.class # ELFCLASS64
  \/ h.data # ELFDATA2LSB
  \/ h.type # ET_EXEC
  \/ h.machine # EM_X86_64

HeaderInvalid(h) ==
  \/ memcmp(h.mag, ELFMAG, SELFMAG) # 0
  \/ h.class # ELFCLASS64
  \/ h.data # ELFDATA2LSB
  \/ h.type # ET_EXEC
  \/ h.machine # EM_X86_64
  \/ h.version # EV_CURRENT

(* ---------------------------- page count ------------------------------- *)
\* (p_memsz + 0x1000 - 1) / 0x1000 in 64-bit unsigned arithmetic, as [top, mid]
PageQuotient(m) ==
  IF m.lo = 0 THEN [top |-> m.top, mid |-> m.mid]
  ELSE IF m.mid = Int31Max THEN [top |-> (m.top + 1) % (TopMax + 1), mid |-> 0]
  ELSE [top |-> m.top, mid |-> m.mid + 1]

\* conversion of the quotient to `int pages`: the low 32 bits, as a signed value
Pages(m) ==
  LET q == PageQuotient(m)
  IN  IF q.top % 2 = 0 THEN q.mid ELSE (q.mid - Int31Max) - 1

(* ------------------------- program-header table ------------------------ *)
\* the entry that a view at byte offset off of the table buffer decodes to
PhdrAt(tbl, off) ==
  IF off % tbl.entsize = 0 /\ off \div tbl.entsize < Len(tbl.entries)
  THEN tbl.entries[(off \div tbl.entsize) + 1]
  ELSE Misaligned

TableSize(h) == h.e_phnum * h.e_phentsize

LoopCond(off, h) == off < h.e_phnum * h.e_phentsize

Stride(h) == h.e_phentsize

\* Kernel->Read(Kernel, &size, (void*)segment): file bytes land at segment..
SegmentRead(m, e) ==
  [a \in Probe |->
     IF a >= e.p_paddr /\ a - e.p_paddr < e.p_filesz
     THEN KernelByte(e.p_offset + (a - e.p_paddr))
     ELSE m[a]]

(* ------------------------------- font ---------------------------------- *)
FontMagicBadFirstOnly(fh) == fh.magic[1] # PSF1_MAGIC0

FontMagicBad(fh) == fh.magic[1] # PSF1_MAGIC0 \/ fh.magic[2] # PSF1_MAGIC1

GlyphBufferSize(fh) ==
  IF fh.mode = 1 THEN fh.charsize * 512 ELSE fh.charsize * 256

(* ------------------------------- state --------------------------------- *)
NoHeader ==
  [mag |-> <<0, 0, 0, 0>>, class |-> 0, data |-> 0, type |-> 0, machine |-> 0,
   version |-> 0, e_phnum |-> 0, e_phentsize |-> 0, e_entry |-> 0]
NoTable == [entsize |-> 1, entries |-> <<>>]
NoFontHeader == [magic |-> <<0, 0>>, mode |-> 0, charsize |-> 0]
NoFont == [psf1_Header |-> NoFontHeader, glyphBuffer |-> 0, set |-> FALSE]
NoFramebuffer == [set |-> FALSE]
NoKernelData ==
  [set |-> FALSE, framebuffer |-> NoFramebuffer, font |-> NoFont,
   kernelSize |-> 0, kernelStart |-> 0, kernelEnd |-> 0]

Init ==
  /\ pc = "locate"
  /\ ret = EFI_SUCCESS
  /\ calls = <<>>
  /\ Kernel = NULL
  /\ header = NoHeader
  /\ kernelSize = 0
  /\ phdrs = NoTable
  /\ phdr = 0
  /\ mem \in {[a \in Probe |-> 0], [a \in Probe |-> Dirty]}
  /\ font = NULL
  /\ fontHeader = NoFontHeader
  /\ glyphBufferSize = 0
  /\ zapFont = NoFont
  /\ framebuffer = NoFramebuffer
  /\ kernelData = NoKernelData

Return(status) == pc' = "returned" /\ ret' = status

(* lines 183-187 *)
LocateKernel ==
  /\ pc = "locate"
  /\ \E dirFails \in BOOLEAN, fileFails \in BOOLEAN :
       LET d == LoadFile(NULL, "kernel", ~dirFails)
           k == LoadFile(d, "main.elf", ~fileFails)
       IN  /\ calls' = calls \o LoadFileCalls(NULL, "kernel", ~dirFails)
                             \o LoadFileCalls(d, "main.elf", ~fileFails)
           /\ Kernel' = k
           /\ IF k = NULL THEN Return(EFI_LOAD_ERROR)
              ELSE pc' = "read_header" /\ ret' = ret
  /\ UNCHANGED <<header, kernelSize, phdrs, phdr, mem, font, fontHeader,
                 glyphBufferSize, zapFont, framebuffer, kernelData>>

(* lines 192-202 *)
ReadHeader ==
  /\ pc = "read_header"
  /\ \E h \in Headers, n \in 0..MaxPhnum, es \in PhEntSizes :
       header' = [mag |-> h.mag, class |-> h.class, data |-> h.data,
                  type |-> h.type, machine |-> h.machine, version |-> h.version,
                  e_phnum |-> n, e_phentsize |-> es, e_entry |-> EntryAddr]
  /\ calls' = calls \o <<[op |-> "Read", file |-> Kernel, size |-> SizeofEhdr,
                          dest |-> HeaderBuf]>>
  /\ pc' = "verify"
  /\ UNCHANGED <<ret, Kernel, kernelSize, phdrs, phdr, mem, font, fontHeader,
                 glyphBufferSize, zapFont, framebuffer, kernelData>>

(* lines 207-217 *)
VerifyHeader ==
  /\ pc = "verify"
  /\ IF HeaderInvalid(header) THEN Return(EFI_LOAD_ERROR)
     ELSE pc' = "load_phdrs" /\ ret' = ret
  /\ UNCHANGED <<calls, Kernel, header, kernelSize, phdrs, phdr, mem, font,
                 fontHeader, glyphBufferSize, zapFont, framebuffer, kernelData>>

(* lines 223-230 *)
LoadProgramHeaders ==
  /\ pc = "load_phdrs"
  /\ \E es \in [1..header.e_phnum -> Entries] :
       phdrs' = [entsize |-> header.e_phentsize, entries |-> es]
  /\ kernelSize' = TableSize(header)
  /\ calls' = calls \o
       << [op |-> "SetPosition", file |-> Kernel, pos |-> 0],
          [op |-> "AllocatePool", size |-> TableSize(header)],
          [op |-> "Read", file |-> Kernel, size |-> TableSize(header),
           dest |-> PhdrsBase] >>
  /\ phdr' = 0
  /\ pc' = "map"
  /\ UNCHANGED <<ret, Kernel, header, mem, font, fontHeader, glyphBufferSize,
                 zapFont, framebuffer, kernelData>>

(* lines 233-252, one iteration of the loop *)
MapSegment ==
  /\ pc = "map"
  /\ LoopCond(phdr, header)
  /\ LET e == PhdrAt(phdrs, phdr)
     IN  IF e.p_type = PT_LOAD
         THEN \E refused \in BOOLEAN :
                /\ calls' = calls \o
                     << [op |-> "AllocatePages", addr |-> e.p_paddr,
                         pages |-> Pages(e.p_memsz), ok |-> ~refused],
                        [op |-> "SetPosition", file |-> Kernel,
                         pos |-> e.p_offset],
                        [op |-> "Read", file |-> Kernel, size |-> e.p_filesz,
                         dest |-> e.p_paddr] >>
                /\ mem' = SegmentRead(mem, e)
         ELSE UNCHANGED <<calls, mem>>
  /\ phdr' = phdr + Stride(header)
  /\ UNCHANGED <<pc, ret, Kernel, header, kernelSize, phdrs, font, fontHeader,
                 glyphBufferSize, zapFont, framebuffer, kernelData>>

(* line 235 false: the loop ends *)
MapDone ==
  /\ pc = "map"
  /\ ~LoopCond(phdr, header)
  /\ pc' = "font_resolve"
  /\ UNCHANGED <<ret, calls, Kernel, header, kernelSize, phdrs, phdr, mem,
                 font, fontHeader, glyphBufferSize, zapFont, framebuffer,
                 kernelData>>

(* line 258 (both LoadFile calls), lines 110-111, 259-262 *)
FontResolve ==
  /\ pc = "font_resolve"
  /\ \E dirFails \in BOOLEAN, fileFails \in BOOLEAN :
       LET d == LoadFile(NULL, "files", ~dirFails)
           f == LoadFile(d, "main.psf", ~fileFails)
       IN  /\ calls' = calls \o LoadFileCalls(NULL, "files", ~dirFails)
                             \o LoadFileCalls(d, "main.psf", ~fileFails)
           /\ font' = f
           /\ IF f = NULL THEN Return(EFI_LOAD_ERROR)
              ELSE pc' = "font_header" /\ ret' = ret
  /\ UNCHANGED <<Kernel, header, kernelSize, phdrs, phdr, mem, fontHeader,
                 glyphBufferSize, zapFont, framebuffer, kernelData>>

(* lines 113-120, 259-262 *)
FontHeader ==
  /\ pc = "font_header"
  /\ \E fh \in FontHeaders :
       /\ fontHeader' = fh
       /\ IF FontMagicBad(fh) THEN Return(EFI_LOAD_ERROR)
          ELSE pc' = "font_glyphs" /\ ret' = ret
  /\ calls' = calls \o
       << [op |-> "AllocatePool", size |-> SizeofPSF1Header],
          [op |-> "Read", file |-> font, size |-> SizeofPSF1Header,
           dest |-> FontHeaderBuf] >>
  /\ UNCHANGED <<Kernel, header, kernelSize, phdrs, phdr, mem, font,
                 glyphBufferSize, zapFont, framebuffer, kernelData>>

(* lines 122-138 *)
FontGlyphs ==
  /\ pc = "font_glyphs"
  /\ glyphBufferSize' = GlyphBufferSize(fontHeader)
  /\ calls' = calls \o
       << [op |-> "SetPosition", file |-> font, pos |-> SizeofPSF1Header],
          [op |-> "AllocatePool", size |-> GlyphBufferSize(fontHeader)],
          [op |-> "Read", file |-> font, size |-> GlyphBufferSize(fontHeader),
           dest |-> GlyphBuf],
          [op |-> "AllocatePool", size |-> SizeofPSF1Font] >>
  /\ zapFont' = [psf1_Header |-> fontHeader,
                 glyphBuffer |-> GlyphBuf, set |-> TRUE]
  /\ pc' = "gop"
  /\ UNCHANGED <<ret, Kernel, header, kernelSize, phdrs, phdr, mem, font,
                 fontHeader, framebuffer, kernelData>>

(* lines 27-47, 268-269 *)
InitializeGOP ==
  /\ pc = "gop"
  /\ \E missing \in BOOLEAN :
       /\ calls' = calls \o <<[op |-> "LocateProtocol", ok |-> ~missing]>>
       /\ IF ~missing
          THEN /\ framebuffer' = [set |-> TRUE]
               /\ pc' = "handoff" /\ ret' = ret
          ELSE /\ framebuffer' = framebuffer
               /\ Return(PlainOne)
  /\ UNCHANGED <<Kernel, header, kernelSize, phdrs, phdr, mem, font,
                 fontHeader, glyphBufferSize, zapFont, kernelData>>

\* phdrs + kernelSize, phdrs being an Elf64_Phdr*: the offset is in elements
KernelEnd(base, size) == base + size * SizeofPhdr

(* lines 272-277 *)
BuildHandoff ==
  /\ pc = "handoff"
  /\ kernelData' = [set |-> TRUE, framebuffer |-> framebuffer, font |-> zapFont,
                    kernelSize |-> kernelSize, kernelStart |-> PhdrsBase,
                    kernelEnd |-> KernelEnd(PhdrsBase, kernelSize)]
  /\ pc' = "clear"
  /\ UNCHANGED <<ret, calls, Kernel, header, kernelSize, phdrs, phdr, mem,
                 font, fontHeader, glyphBufferSize, zapFont, framebuffer>>

(* line 280 *)
ClearScreen ==
  /\ pc = "clear"
  /\ calls' = calls \o <<[op |-> "ClearScreen"]>>
  /\ pc' = "run"
  /\ UNCHANGED <<ret, Kernel, header, kernelSize, phdrs, phdr, mem, font,
                 fontHeader, glyphBufferSize, zapFont, framebuffer, kernelData>>

(* lines 283-285 *)
RunKernel ==
  /\ pc = "run"
  /\ calls' = calls \o <<[op |-> "RunKernel", entry |-> header.e_entry,
                          arg |-> kernelData]>>
  /\ Return(EFI_SUCCESS)
  /\ UNCHANGED <<Kernel, header, kernelSize, phdrs, phdr, mem, font,
                 fontHeader, glyphBufferSize, zapFont, framebuffer, kernelData>>

Next ==
  \/ LocateKernel
  \/ ReadHeader
  \/ VerifyHeader
  \/ LoadProgramHeaders
  \/ MapSegment
  \/ MapDone
  \/ FontResolve
  \/ FontHeader
  \/ FontGlyphs
  \/ InitializeGOP
  \/ BuildHandoff
  \/ ClearScreen
  \/ RunKernel

Spec == Init /\ [][Next]_vars

(* ======================= properties of the loader ====================== *)
CallIdx == 1..Len(calls)
Called(name) == \E j \in CallIdx : calls[j].op = name
IsAlloc(c) == c.op = "AllocatePages"
IsSegRead(c) ==
  c.op = "Read" /\ c.file.path = "main.elf"
                /\ c.dest \notin {HeaderBuf, PhdrsBase}
IsLoad(e) == e.p_type = PT_LOAD
Loadable == SelectSeq(phdrs.entries, IsLoad)
Before(j) == SubSeq(calls, 1, j - 1)

\* h fails at least one of the six header checks
Corrupted(h) ==
  \/ \E i \in 1..4 : h.mag[i] # ELFMAG[i]
  \/ h.class # ELFCLASS64
  \/ h.data # ELFDATA2LSB
  \/ h.type # ET_EXEC
  \/ h.machine # EM_X86_64
  \/ h.version # EV_CURRENT

\* ceil(m / 4096) as a mathematical number, [top, mid] = top * 2^31 + mid
CeilPages(m) ==
  IF m.lo = 0 THEN [top |-> m.top, mid |-> m.mid]
  ELSE IF m.mid = Int31Max THEN [top |-> m.top + 1, mid |-> 0]
  ELSE [top |-> m.top, mid |-> m.mid + 1]

\* the int handed to AllocatePages denotes exactly ceil(m / 4096)
ExactPages(p, m) == CeilPages(m).top = 0 /\ p = CeilPages(m).mid

\* probe address a lies in [p_paddr + p_filesz, p_paddr + p_memsz)
InTail(a, e) ==
  /\ a >= e.p_paddr + e.p_filesz
  /\ \/ e.p_memsz.top > 0
     \/ e.p_memsz.mid > 0
     \/ a - e.p_paddr < e.p_memsz.lo

\* the program-header entry the loop body has just processed
JustMapped == PhdrAt(phdrs, phdr - Stride(header))

(* C1: immediately after a loadable segment with p_filesz <= p_memsz has   *)
(* been mapped, every byte in [p_paddr + p_filesz, p_paddr + p_memsz)      *)
(* reads as zero, whatever the memory held before.                         *)
C1_TailZeroFilled ==
  (pc = "map" /\ phdr > 0 /\ IsLoad(JustMapped)
     /\ calls[Len(calls) - 2].ok)
  => \A a \in Probe : InTail(a, JustMapped) => mem[a] = 0

(* C2: a header that fails one of the six checks is rejected: efi_main     *)
(* returns EFI_LOAD_ERROR, requests no fixed-address pages and never calls *)
(* the kernel entry.                                                       *)
C2_InvalidHeaderRejected ==
  (Kernel # NULL /\ pc # "read_header" /\ Corrupted(header))
  => /\ ~Called("AllocatePages")
     /\ ~Called("RunKernel")
     /\ pc # "verify" => (pc = "returned" /\ ret = EFI_LOAD_ERROR)

C2_Witness ==
  /\ pc = "returned" /\ Kernel # NULL /\ Corrupted(header)
  /\ header.version # EV_CURRENT

(* C3: when the firmware refuses a fixed-address allocation the loader     *)
(* stops there: nothing is read into that address, no further segment is   *)
(* mapped, and the kernel entry is never called.                           *)
C3_RefusedAllocationAborts ==
  \A j \in CallIdx :
    (IsAlloc(calls[j]) /\ ~calls[j].ok)
    => \A k \in CallIdx :
         k > j => calls[k].op \notin {"Read", "SetPosition", "AllocatePages",
                                      "RunKernel"}

(* C4: a failed LoadFile is never used as the directory of a later         *)
(* resolve: main.elf and main.psf are never opened relative to the volume  *)
(* root, and once the kernel (files) directory failed to open nothing else *)
(* is opened and efi_main reports EFI_LOAD_ERROR.                          *)
C4_ErrorMarkerNotUsedAsDirectory ==
  \A j \in CallIdx :
    calls[j].op = "Open"
    => /\ calls[j].path \in {"main.elf", "main.psf"} => calls[j].dir # Root
       /\ (calls[j].path \in {"kernel", "files"} /\ ~calls[j].ok)
          => /\ pc = "returned" /\ ret = EFI_LOAD_ERROR
             /\ \A k \in CallIdx : k > j => calls[k].op # "Open"

(* C5: the glyph-buffer size is charsize * 512 when bit 0 of mode is set   *)
(* and charsize * 256 when it is clear.                                    *)
C5_GlyphSizeFromModeBit0 ==
  zapFont.set
  => glyphBufferSize =
       fontHeader.charsize * (IF fontHeader.mode % 2 = 1 THEN 512 ELSE 256)

\* a stage of the boot sequence has failed
BootFailed ==
  \/ \E j \in CallIdx :
       /\ \/ calls[j].op \in {"AllocatePages", "LocateProtocol"}
          \/ (calls[j].op = "Open" /\ calls[j].path \in {"main.elf", "main.psf"})
       /\ ~calls[j].ok
  \/ (Kernel # NULL /\ pc # "read_header" /\ Corrupted(header))
  \/ (font # NULL /\ pc # "font_header"
        /\ fontHeader.magic # <<PSF1_MAGIC0, PSF1_MAGIC1>>)

(* C6: on every failing path efi_main returns EFI_LOAD_ERROR and never     *)
(* calls the kernel entry.                                                 *)
C6_FailureReturnsLoadError ==
  BootFailed
  => /\ ~Called("RunKernel")
     /\ pc = "returned" => ret = EFI_LOAD_ERROR

(* C7: once the loop is over, the fixed-address allocations are exactly    *)
(* one per loadable entry of the table, in table order, each at p_paddr    *)
(* and for ceil(p_memsz / 4096) pages, with one segment read each; other   *)
(* entries cause no allocation and no read.                                *)
C7_OneExactAllocationPerLoadable ==
  (pc \notin {"locate", "read_header", "verify", "load_phdrs", "map"}
     /\ Kernel # NULL /\ ~Corrupted(header))
  => LET A == SelectSeq(calls, IsAlloc)
         R == SelectSeq(calls, IsSegRead)
     IN  /\ Len(A) = Len(Loadable)
         /\ Len(R) = Len(Loadable)
         /\ \A k \in 1..Len(Loadable) :
              /\ k <= Len(A) => /\ A[k].addr = Loadable[k].p_paddr
                                /\ ExactPages(A[k].pages, Loadable[k].p_memsz)
              /\ k <= Len(R) => R[k].dest = Loadable[k].p_paddr

(* C8: a font file with wrong magic is rejected right after the header     *)
(* read: no seek, no glyph allocation, no glyph read, and efi_main returns *)
(* EFI_LOAD_ERROR without discovering the framebuffer or calling the       *)
(* kernel.                                                                 *)
C8_BadFontMagicRejectedEarly ==
  (font # NULL /\ pc # "font_header"
     /\ fontHeader.magic # <<PSF1_MAGIC0, PSF1_MAGIC1>>)
  => /\ pc = "returned" /\ ret = EFI_LOAD_ERROR
     /\ \E j \in CallIdx :
          /\ calls[j].op = "Open" /\ calls[j].path = "main.psf"
          /\ SubSeq(calls, j + 1, Len(calls)) =
               << [op |-> "AllocatePool", size |-> SizeofPSF1Header],
                  [op |-> "Read", file |-> font, size |-> SizeofPSF1Header,
                   dest |-> FontHeaderBuf] >>

C8_Witness ==
  /\ pc = "returned" /\ font # NULL
  /\ fontHeader.magic = <<PSF1_MAGIC0, PSF1_MAGIC1 + 1>>

\* every loadable entry has its allocation request and its read among the
\* first j-1 calls
AllRequestedBefore(j) ==
  LET A == SelectSeq(Before(j), IsAlloc)
      R == SelectSeq(Before(j), IsSegRead)
  IN  /\ Len(A) = Len(Loadable)
      /\ Len(R) = Len(Loadable)
      /\ \A k \in 1..Len(Loadable) :
           /\ A[k].addr = Loadable[k].p_paddr
           /\ R[k].dest = Loadable[k].p_paddr
           /\ R[k].size = Loadable[k].p_filesz

\* ... and the firmware granted every one of these allocations
AllMappedBefore(j) ==
  /\ AllRequestedBefore(j)
  /\ \A k \in 1..Len(Before(j)) : IsAlloc(calls[k]) => calls[k].ok

\* the stage order of C9, with Mapped(j) as its notion of "all segments mapped"
StageOrder(Mapped(_)) ==
  /\ \A j \in CallIdx :
       \/ (calls[j].op = "Open" /\ calls[j].path \in {"files", "main.psf"})
       \/ calls[j].op = "LocateProtocol"
       => Mapped(j)
  /\ kernelData.set
       => /\ zapFont.set /\ framebuffer.set
          /\ kernelData.font = zapFont /\ kernelData.framebuffer = framebuffer
          /\ \E f, g \in CallIdx :
               /\ f < g
               /\ calls[f].op = "Open" /\ calls[f].path = "main.psf"
               /\ calls[f].ok
               /\ calls[g].op = "LocateProtocol" /\ calls[g].ok
  /\ \A j \in CallIdx :
       calls[j].op = "RunKernel"
       => /\ ~Corrupted(header)
          /\ Mapped(j)
          /\ kernelData.set /\ calls[j].arg = kernelData
          /\ calls[j].entry = header.e_entry
          /\ calls[j - 1].op = "ClearScreen"

(* C9: stage order.  Every loadable segment is allocated and read before   *)
(* the font is resolved or the framebuffer discovered; the font and the    *)
(* framebuffer are resolved successfully before the handoff record is      *)
(* built; the kernel entry is called only after header validation, the     *)
(* mapping of all segments, the handoff record and the console clear.      *)
C9_StageOrder == StageOrder(AllMappedBefore)

\* The same order over the calls as issued, granted or not: this much holds.
StageOrderOfRequests == StageOrder(AllRequestedBefore)

(* C10: in the handoff record the image end equals the image start plus    *)
(* the image byte size, the start being the program-header table buffer    *)
(* and the size e_phnum * e_phentsize.                                     *)
C10_ExtentConsistent ==
  kernelData.set
  => /\ kernelData.kernelStart = PhdrsBase
     /\ kernelData.kernelSize = header.e_phnum * header.e_phentsize
     /\ kernelData.kernelEnd - kernelData.kernelStart = kernelData.kernelSize

====
